---- MODULE Spec2Model ----
(***************************************************************************)
(* The sample non-linear VPAID ad unit VpaidNonLinear, in its two          *)
(* variants:                                                               *)
(*   variant 1  src/vpaid/VpaidNonLinear.js                                *)
(*   variant 2  src/unnamed/part_000                                       *)
(* One ad unit object, the host player calling its methods, the user       *)
(* clicking the rendered overlays, the video element and the timer queue   *)
(* of the page.  Every handler runs to completion (one action each); an    *)
(* uncaught exception ends the handler and keeps the writes made so far.   *)
(***************************************************************************)
EXTENDS Integers, Sequences, FiniteSets, TLC

\* ---------------------------------------------------------------- bounds
MaxOps == 3
MaxFairOps == 2
MaxClicks == 1
TickMs == 75
ClockOrigin == 1000

\* ------------------------------------------------------ program constants
StopDelayMs == 75
ClickExtraSeconds == 10
InitialDuration == 10
InitialBitrate == 256
InitialVolume1 == 50
InitialVolume2 == 1

\* ---------------------------------------------------------------- inputs
Variants == {1, 2}

EventNames ==
  {"AdLoaded", "AdStarted", "AdClickThru", "AdRemainingTimeChange",
   "AdLinearChange", "AdError", "AdStopped", "AdVolumeChange",
   "AdSizeChange", "AdPaused", "AdResumed", "AdPlaying", "AdExpanded",
   "AdSkipped"}

\* what the host passes to subscribe: a callback and the context to bind
Registrations ==
  {[aCallback |-> "onEventA", aContext |-> "playerA"],
   [aCallback |-> "onEventB", aContext |-> "playerB"]}

Sizes ==
  {[width |-> 300, height |-> 250, viewMode |-> "normal"],
   [width |-> -1, height |-> 480, viewMode |-> "fullscreen"]}

Bitrates == {512}
Volumes == {1, 50}
Versions == {"1.0", "2.0"}

Mimes == {"video/mp4", "video/webm"}

\* what the video element answers something other than '' for
PlayableMimes == {"video/mp4"}

\* a video descriptor: the url stands for the position in the list
Descriptor(url, mimetype) == [url |-> url, mimetype |-> mimetype]

\* the video lists a creative may carry: no entry playable, only the
\* first, only the second, both
VideoLists ==
  {<<Descriptor(1, "video/webm"), Descriptor(2, "video/webm")>>,
   <<Descriptor(1, "video/mp4"), Descriptor(2, "video/webm")>>,
   <<Descriptor(1, "video/webm"), Descriptor(2, "video/mp4")>>,
   <<Descriptor(1, "video/mp4"), Descriptor(2, "video/mp4")>>}

\* the text under creativeData['AdParameters']: either it does not parse,
\* or it parses to an object that may or may not carry a videos key
AdParameterTexts ==
  {[wellFormed |-> FALSE, hasVideos |-> FALSE, videos |-> <<>>]}
  \cup {[wellFormed |-> TRUE, hasVideos |-> FALSE, videos |-> <<>>]}
  \cup {[wellFormed |-> TRUE, hasVideos |-> TRUE, videos |-> l] :
          l \in VideoLists}

\* ----------------------------------------------------------------- state
VARIABLES
  variant,            \* which of the two source files the unit is built from
  attributes_,        \* this.attributes_
  eventsCallbacks_,   \* this.eventsCallbacks_ : event name -> slot
  slot_,              \* this.slot_
  videoSlot_,         \* this.videoSlot_
  startTime_,         \* this.startTime_
  videos_,            \* this.videos_ (variant 1)
  parameters_,        \* this.parameters_ (variant 2)
  slotChildren,       \* number of overlay images rendered in the container
  video,              \* the video element: src, size attributes, listeners
  timers,             \* pending setTimeout tasks, as due times, in order
  ticks,              \* wall clock, in ticks of TickMs after ClockOrigin
  opsLeft,            \* calls (and waits) the host player may still make
  last,               \* what the most recent handler did
  lastReg,            \* per event: the most recent subscribe/unsubscribe
  lastSize,           \* the size passed to the most recent initAd/resizeAd
  startedAt,          \* clock reading of the most recent startAd call
  clicksSinceStart,   \* first-overlay clicks since the most recent startAd
  stopCalls,          \* stopAd calls so far
  stoppedEmits,       \* AdStopped emissions so far
  lastIO,             \* arguments, return value and, per emission, what a
                      \* callback saw, of the most recent handler
  hostCalls           \* how often the host has called initAd, startAd and
                      \* stopAd, and whether it called anything after stopAd

vars ==
  <<variant, attributes_, eventsCallbacks_, slot_, videoSlot_, startTime_,
    videos_, parameters_, slotChildren, video, timers, ticks, opsLeft, last,
    lastReg, lastSize, startedAt, clicksSinceStart, stopCalls, stoppedEmits,
    lastIO, hostCalls>>

\* ------------------------------------------------------- values and DOM
\* a slot of eventsCallbacks_: key absent, key holding null, or a bound
\* function
Absent == [kind |-> "absent", fn |-> "-", this |-> "-"]
Null == [kind |-> "null", fn |-> "-", this |-> "-"]
BoundFunction(aCallback, aContext) ==
  [kind |-> "function", fn |-> aCallback, this |-> aContext]

\* new Date().getTime()
Now == ClockOrigin + ticks * TickMs

\* an empty record of what a handler did
NoRun == [emits |-> <<>>, calls |-> <<>>, fault |-> FALSE]

Done(op, run) ==
  [op |-> op, emits |-> run.emits, calls |-> run.calls, fault |-> run.fault]

Faulted(run) == [run EXCEPT !.fault = TRUE]

\* property key of an array used with `in` and []: its elements joined by
\* commas (a string is its own key)
RECURSIVE JoinFrom(_, _)
JoinFrom(arr, i) ==
  IF i > Len(arr) THEN ""
  ELSE IF i = Len(arr) THEN arr[i]
  ELSE arr[i] \o "," \o JoinFrom(arr, i + 1)

ArrayToPropertyKey(arr) == JoinFrom(arr, 1)

\* JSON.parse of a well-formed text; a text that is not well formed throws
JSONparse(text) == [hasVideos |-> text.hasVideos, videos |-> text.videos]

\* obj.videos || []
VideosOrEmpty(obj) == IF obj.hasVideos THEN obj.videos ELSE <<>>

\* HTMLMediaElement.canPlayType: '' when the type cannot be played
canPlayType(mimetype) == IF mimetype \in PlayableMimes THEN "maybe" ELSE ""

\* HTMLMediaElement.play(): playback starts when there is a source
play(v) == IF v.src # <<>> THEN [v EXCEPT !.state = "playing"] ELSE v

\* HTMLMediaElement.pause()
pause(v) == IF v.state = "playing" THEN [v EXCEPT !.state = "paused"] ELSE v

\* ------------------------------------------------------ event dispatcher
\* callEvent_: the handler's record so far, extended by one emission.  The
\* key is looked up with `in`; a slot that holds null is called all the same
callEvent_(cbs, run, eventType) ==
  IF run.fault THEN run
  ELSE LET key == eventType
           emitted == [run EXCEPT !.emits = Append(@, key)]
       IN  IF cbs[key].kind = "absent" THEN emitted
           ELSE IF cbs[key].kind = "null" THEN Faulted(emitted)
           ELSE [emitted EXCEPT !.calls =
                   Append(@, [event |-> key, fn |-> cbs[key].fn,
                              this |-> cbs[key].this, args |-> <<>>])]

\* the inline dispatch of nonLinearAdClick (variant 2): the callback is
\* called with three arguments
callClickThru(cbs, run) ==
  LET emitted == [run EXCEPT !.emits = Append(@, "AdClickThru")]
  IN  IF cbs["AdClickThru"].kind = "absent" THEN emitted
      ELSE IF cbs["AdClickThru"].kind = "null" THEN Faulted(emitted)
      ELSE [emitted EXCEPT !.calls =
              Append(@, [event |-> "AdClickThru",
                         fn |-> cbs["AdClickThru"].fn,
                         this |-> cbs["AdClickThru"].this,
                         args |-> <<"", "0", "true">>])]

\* subscribe that keeps a registration already present
subscribeSlot_keepsFirst(cbs, aCallback, eventName, aContext) ==
  IF cbs[eventName].kind = "function" THEN cbs
  ELSE [cbs EXCEPT ![eventName] = BoundFunction(aCallback, aContext)]

\* subscribe: aCallback.bind(aContext) stored under eventName
subscribeSlot(cbs, aCallback, eventName, aContext) ==
  [cbs EXCEPT ![eventName] = BoundFunction(aCallback, aContext)]

\* unsubscribe that leaves the slot as it is
unsubscribeSlot_keepsSlot(cbs, eventName) == cbs

\* unsubscribe: the key stays, its value becomes null
unsubscribeSlot(cbs, eventName) == [cbs EXCEPT ![eventName] = Null]

\* keys present in eventsCallbacks_
Keys(cbs) == {e \in EventNames : cbs[e].kind # "absent"}

\* the subscribe and unsubscribe calls of one run are all about one event
\* name
SingleName(eventName) == Keys(eventsCallbacks_) \subseteq {eventName}

\* what a callback that reads the getters and looks at the page sees
View(attrs, children, v) ==
  [attributes |-> attrs, slotChildren |-> children, src |-> v.src]

\* arguments and return value of a handler, and the views of its emissions
IO(args, ret, seen) == [args |-> args, ret |-> ret, seen |-> seen]

\* every emission of the handler sees the same view
SeenBy(run, view) == [i \in DOMAIN run.emits |-> view]

\* the first emission of the handler sees one view, the later ones another
SeenFirstThen(run, first, later) ==
  [i \in DOMAIN run.emits |-> IF i = 1 THEN first ELSE later]

\* --------------------------------------------------------- initial state
Constructed(calls) ==
  /\ variant \in Variants
  /\ attributes_ =
       [companions |-> "", desiredBitrate |-> InitialBitrate,
        duration |-> InitialDuration, expanded |-> FALSE, height |-> 0,
        icons |-> "", linear |-> FALSE, skippableState |-> FALSE,
        viewMode |-> "normal", width |-> 0,
        volume |-> IF variant = 1 THEN InitialVolume1 ELSE InitialVolume2]
  /\ eventsCallbacks_ = [e \in EventNames |-> Absent]
  /\ slot_ = "null"
  /\ videoSlot_ = IF variant = 1 THEN "undefined" ELSE "null"
  /\ startTime_ = 0
  /\ videos_ = <<>>
  /\ parameters_ = [hasVideos |-> FALSE, videos |-> <<>>]
  /\ slotChildren = 0
  /\ video = [src |-> <<>>, width |-> <<>>, height |-> <<>>,
              state |-> "idle", endedListeners |-> 0]
  /\ timers = <<>>
  /\ ticks = 0
  /\ opsLeft = calls
  /\ last = Done("construct", NoRun)
  /\ lastReg = [e \in EventNames |-> Absent]
  /\ lastSize = [width |-> 0, height |-> 0, viewMode |-> "normal"]
  /\ startedAt = <<>>
  /\ clicksSinceStart = 0
  /\ stopCalls = 0
  /\ stoppedEmits = 0
  /\ lastIO = IO(<<>>, <<>>, <<>>)
  /\ hostCalls = [initAd |-> 0, startAd |-> 0, stopAd |-> 0,
                  afterStop |-> FALSE]

Init == Constructed(MaxOps)

\* the same unit with a shorter run of host calls ahead
FairInit == Constructed(MaxFairOps)

\* ------------------------------------------------------------- handlers
\* a call of the host player (or a wait between two calls) is taken while
\* the budget of the run lasts
HostCall == opsLeft > 0 /\ opsLeft' = opsLeft - 1

\* the host calls the named method of the unit
HostMethod(op) ==
  /\ HostCall
  /\ hostCalls' =
       [hostCalls EXCEPT
          !.initAd = IF op = "initAd" THEN @ + 1 ELSE @,
          !.startAd = IF op = "startAd" THEN @ + 1 ELSE @,
          !.stopAd = IF op = "stopAd" THEN @ + 1 ELSE @,
          !.afterStop = @ \/ hostCalls.stopAd > 0]

\* initAd that forgets to store the height
initAdAttributes_noHeight(attrs, size, desiredBitrate) ==
  [attrs EXCEPT !.width = size.width, !.viewMode = size.viewMode,
                !.desiredBitrate = desiredBitrate]

\* initAd: the four attribute writes
initAdAttributes(attrs, size, desiredBitrate) ==
  [attrs EXCEPT !.width = size.width, !.height = size.height,
                !.viewMode = size.viewMode,
                !.desiredBitrate = desiredBitrate]

initAd ==
  \E size \in Sizes, desiredBitrate \in Bitrates, text \in AdParameterTexts :
    /\ HostMethod("initAd")
    /\ attributes_' = initAdAttributes(attributes_, size, desiredBitrate)
    /\ slot_' = "slot"
    /\ videoSlot_' = "videoSlot"
    /\ IF text.wellFormed
       THEN /\ videos_' = IF variant = 1
                          THEN VideosOrEmpty(JSONparse(text)) ELSE videos_
            /\ parameters_' = IF variant = 2
                              THEN JSONparse(text) ELSE parameters_
            /\ last' = Done("initAd",
                            callEvent_(eventsCallbacks_, NoRun, "AdLoaded"))
       ELSE /\ UNCHANGED <<videos_, parameters_>>
            /\ last' = Done("initAd", Faulted(NoRun))
    /\ lastSize' = size
    /\ lastIO' = IO(<<>>, <<>>,
                    SeenBy(last', View(attributes_', slotChildren, video)))
    /\ UNCHANGED <<variant, eventsCallbacks_, startTime_, slotChildren,
                   video, timers, ticks, lastReg, startedAt,
                   clicksSinceStart, stopCalls, stoppedEmits>>

\* handshakeVersion that answers with the version it was given
handshakeVersionReturn_echo(version) == version

\* handshakeVersion: the return value
handshakeVersionReturn(version) == "2.0"

handshakeVersion ==
  \E version \in Versions :
    /\ HostMethod("handshakeVersion")
    /\ last' = Done("handshakeVersion", NoRun)
    /\ lastIO' = IO(<<version>>, <<handshakeVersionReturn(version)>>, <<>>)
    /\ UNCHANGED <<variant, attributes_, eventsCallbacks_, slot_, videoSlot_,
                   startTime_, videos_, parameters_, slotChildren, video,
                   timers, ticks, lastReg, lastSize, startedAt,
                   clicksSinceStart, stopCalls, stoppedEmits>>

\* startAd that skips the overlays when there is no container and emits
\* AdStarted all the same
startAd_noContainer ==
  /\ HostMethod("startAd")
  /\ startTime_' = Now
  /\ startedAt' = <<Now>>
  /\ clicksSinceStart' = 0
  /\ IF slot_ = "slot"
     THEN /\ slotChildren' = slotChildren + 2
          /\ last' = Done("startAd",
                          callEvent_(eventsCallbacks_, NoRun, "AdStarted"))
     ELSE /\ UNCHANGED slotChildren
          /\ last' = Done("startAd",
                          callEvent_(eventsCallbacks_, NoRun, "AdStarted"))
  /\ lastIO' = IO(<<>>, <<>>,
                  SeenBy(last', View(attributes_, slotChildren', video)))
  /\ UNCHANGED <<variant, attributes_, eventsCallbacks_, slot_, videoSlot_,
                 videos_, parameters_, video, timers, ticks, lastReg,
                 lastSize, stopCalls, stoppedEmits>>

\* startAd: the start time is taken before the container is touched; a
\* null container faults at appendChild
startAd ==
  /\ HostMethod("startAd")
  /\ startTime_' = Now
  /\ startedAt' = <<Now>>
  /\ clicksSinceStart' = 0
  /\ IF slot_ = "slot"
     THEN /\ slotChildren' = slotChildren + 2
          /\ last' = Done("startAd",
                          callEvent_(eventsCallbacks_, NoRun, "AdStarted"))
     ELSE /\ UNCHANGED slotChildren
          /\ last' = Done("startAd", Faulted(NoRun))
  /\ lastIO' = IO(<<>>, <<>>,
                  SeenBy(last', View(attributes_, slotChildren', video)))
  /\ UNCHANGED <<variant, attributes_, eventsCallbacks_, slot_, videoSlot_,
                 videos_, parameters_, video, timers, ticks, lastReg,
                 lastSize, stopCalls, stoppedEmits>>

\* the click handler of the first overlay image:
\* overlayOnClick_ (variant 1), nonLinearAdClick (variant 2)
overlayOnClick_ ==
  /\ slotChildren > 0
  /\ clicksSinceStart < MaxClicks
  /\ clicksSinceStart' = clicksSinceStart + 1
  /\ UNCHANGED opsLeft
  /\ IF variant = 1
     THEN LET run1 == callEvent_(eventsCallbacks_, NoRun, "AdClickThru")
          IN  /\ attributes_' =
                   IF run1.fault THEN attributes_
                   ELSE [attributes_ EXCEPT
                           !.duration = @ + ClickExtraSeconds]
              /\ last' = Done("overlayClick",
                              callEvent_(eventsCallbacks_, run1,
                                         "AdRemainingTimeChange"))
     ELSE /\ UNCHANGED attributes_
          /\ last' = Done("overlayClick",
                          callClickThru(eventsCallbacks_, NoRun))
  /\ lastIO' = IO(<<>>, <<>>,
                  SeenFirstThen(last',
                                View(attributes_, slotChildren, video),
                                View(attributes_', slotChildren, video)))
  /\ UNCHANGED <<variant, eventsCallbacks_, slot_, videoSlot_, startTime_,
                 videos_, parameters_, slotChildren, video, timers, ticks,
                 lastReg, lastSize, startedAt, stopCalls, stoppedEmits,
                 hostCalls>>

\* index of the first entry the video element can play, 0 when there is none
RECURSIVE firstPlayable(_, _)
firstPlayable(videos, i) ==
  IF i > Len(videos) THEN 0
  ELSE IF canPlayType(videos[i].mimetype) # "" THEN i
  ELSE firstPlayable(videos, i + 1)

\* the scan of overlay2OnClick_ (variant 1): the loop breaks at the first
\* playable entry
scanFirst(v, videos) ==
  LET i == firstPlayable(videos, 1)
  IN  IF i = 0 THEN [video |-> v, foundSource |-> FALSE]
      ELSE [video |-> [v EXCEPT !.src = <<videos[i].url>>],
            foundSource |-> TRUE]

\* the scan of linearButtonClick (variant 2): the loop has no break; every
\* playable entry sets the source, adds an 'ended' listener and plays
RECURSIVE scanAll(_, _, _)
scanAll(v, videos, i) ==
  IF i > Len(videos) THEN v
  ELSE IF canPlayType(videos[i].mimetype) # ""
       THEN scanAll(play([v EXCEPT !.src = <<videos[i].url>>,
                                   !.endedListeners = @ + 1]),
                    videos, i + 1)
       ELSE scanAll(v, videos, i + 1)

\* the click handler of the second overlay image:
\* overlay2OnClick_ (variant 1), linearButtonClick (variant 2)
overlay2OnClick_ ==
  /\ slotChildren > 0
  /\ UNCHANGED opsLeft
  /\ attributes_' = [attributes_ EXCEPT !.linear = TRUE]
  /\ LET run1 == callEvent_(eventsCallbacks_, NoRun, "AdLinearChange")
     IN  IF run1.fault
         THEN /\ UNCHANGED <<slotChildren, video>>
              /\ last' = Done("overlay2Click", run1)
         ELSE /\ slotChildren' = 0
              /\ IF variant = 1
                 THEN LET scan == scanFirst(video, videos_)
                          run2 == IF scan.foundSource THEN run1
                                  ELSE callEvent_(eventsCallbacks_, run1,
                                                  "AdError")
                      IN  /\ video' =
                               IF run2.fault THEN scan.video
                               ELSE play([scan.video EXCEPT
                                            !.endedListeners = @ + 1])
                          /\ last' = Done("overlay2Click", run2)
                 ELSE /\ video' =
                           scanAll(video, VideosOrEmpty(parameters_), 1)
                      /\ last' = Done("overlay2Click",
                                      callEvent_(eventsCallbacks_, run1,
                                                 "AdError"))
  /\ lastIO' = IO(<<>>, <<>>,
                  SeenFirstThen(last',
                                View(attributes_', slotChildren, video),
                                View(attributes_', slotChildren', video')))
  /\ UNCHANGED <<variant, eventsCallbacks_, slot_, videoSlot_, startTime_,
                 videos_, parameters_, timers, ticks, lastReg, lastSize,
                 startedAt, clicksSinceStart, stopCalls, stoppedEmits,
                 hostCalls>>

\* number of AdStopped emissions in a handler's record
StoppedIn(run) ==
  Cardinality({i \in DOMAIN run.emits : run.emits[i] = "AdStopped"})

\* stopAd that emits AdStopped at once instead of queueing a timer
stopAdEffect_immediate(cbs, tq, now) ==
  [timers |-> tq, run |-> callEvent_(cbs, NoRun, "AdStopped")]

\* stopAd: setTimeout(callback, 75, ['AdStopped']); nothing is emitted now
stopAdEffect(cbs, tq, now) ==
  [timers |-> Append(tq, [due |-> now + StopDelayMs,
                          arg |-> <<"AdStopped">>]),
   run |-> NoRun]

stopAd ==
  /\ HostMethod("stopAd")
  /\ LET eff == stopAdEffect(eventsCallbacks_, timers, Now)
     IN  /\ timers' = eff.timers
         /\ last' = Done("stopAd", eff.run)
         /\ stoppedEmits' = stoppedEmits + StoppedIn(eff.run)
  /\ stopCalls' = stopCalls + 1
  /\ lastIO' = IO(<<>>, <<>>,
                  SeenBy(last', View(attributes_, slotChildren, video)))
  /\ UNCHANGED <<variant, attributes_, eventsCallbacks_, slot_, videoSlot_,
                 startTime_, videos_, parameters_, slotChildren, video,
                 ticks, lastReg, lastSize, startedAt, clicksSinceStart>>

\* the stopAd calls of n 'ended' listeners, one after the other
RECURSIVE stopAdTimes(_, _, _, _)
stopAdTimes(n, cbs, eff, now) ==
  IF n = 0 THEN eff
  ELSE LET one == stopAdEffect(cbs, eff.timers, now)
       IN  stopAdTimes(n - 1, cbs,
                       [timers |-> one.timers,
                        run |-> [emits |-> eff.run.emits \o one.run.emits,
                                 calls |-> eff.run.calls \o one.run.calls,
                                 fault |-> one.run.fault]],
                       now)

\* the video element reaches the end of the source: every 'ended' listener
\* (each a bound stopAd) runs
videoEnded ==
  /\ UNCHANGED opsLeft
  /\ video.state = "playing"
  /\ video' = [video EXCEPT !.state = "ended"]
  /\ LET eff == stopAdTimes(video.endedListeners, eventsCallbacks_,
                            [timers |-> timers, run |-> NoRun], Now)
     IN  /\ timers' = eff.timers
         /\ last' = Done("videoEnded", eff.run)
         /\ stoppedEmits' = stoppedEmits + StoppedIn(eff.run)
  /\ stopCalls' = stopCalls + video.endedListeners
  /\ lastIO' = IO(<<>>, <<>>,
                  SeenBy(last', View(attributes_, slotChildren, video')))
  /\ UNCHANGED <<variant, attributes_, eventsCallbacks_, slot_, videoSlot_,
                 startTime_, videos_, parameters_, slotChildren, ticks,
                 lastReg, lastSize, startedAt, clicksSinceStart,
                 hostCalls>>

\* the oldest stopAd timer is due: callEvent_ runs with the array argument
stopTimerFires ==
  /\ timers # <<>>
  /\ Now >= Head(timers).due
  /\ timers' = Tail(timers)
  /\ LET run == callEvent_(eventsCallbacks_, NoRun,
                            ArrayToPropertyKey(Head(timers).arg))
     IN  /\ last' = Done("stopTimer", run)
         /\ stoppedEmits' = stoppedEmits + StoppedIn(run)
  /\ lastIO' = IO(<<>>, <<>>,
                  SeenBy(last', View(attributes_, slotChildren, video)))
  /\ UNCHANGED <<variant, attributes_, eventsCallbacks_, slot_, videoSlot_,
                 startTime_, videos_, parameters_, slotChildren, video,
                 ticks, opsLeft, lastReg, lastSize, startedAt,
                 clicksSinceStart, stopCalls,
                 hostCalls>>

\* wall-clock time passes: between the handlers of the run, and for as
\* long as a timer is not yet due
Tick ==
  /\ \/ HostCall
     \/ timers # <<>> /\ Now < Head(timers).due /\ UNCHANGED opsLeft
  /\ ticks' = ticks + 1
  /\ UNCHANGED <<variant, attributes_, eventsCallbacks_, slot_, videoSlot_,
                 startTime_, videos_, parameters_, slotChildren, video,
                 timers, last, lastReg, lastSize, startedAt,
                 clicksSinceStart, stopCalls, stoppedEmits,
                 hostCalls, lastIO>>

\* setAdVolume that keeps the volume within 0..1
setAdVolumeAttributes_clamped(attrs, value) ==
  [attrs EXCEPT !.volume = IF value > 1 THEN 1
                           ELSE IF value < 0 THEN 0 ELSE value]

\* setAdVolume: the value is stored as it comes
setAdVolumeAttributes(attrs, value) == [attrs EXCEPT !.volume = value]

\* setAdVolume that emits AdVolumeChange before it stores the value
setAdVolume_emitsFirst ==
  \E value \in Volumes :
    /\ HostMethod("setAdVolume")
    /\ attributes_' = setAdVolumeAttributes(attributes_, value)
    /\ last' = Done("setAdVolume",
                    callEvent_(eventsCallbacks_, NoRun, "AdVolumeChange"))
    /\ lastIO' = IO(<<value>>, <<>>,
                    SeenBy(last', View(attributes_, slotChildren, video)))
    /\ UNCHANGED <<variant, eventsCallbacks_, slot_, videoSlot_, startTime_,
                   videos_, parameters_, slotChildren, video, timers, ticks,
                   lastReg, lastSize, startedAt, clicksSinceStart,
                   stopCalls, stoppedEmits>>

setAdVolume ==
  \E value \in Volumes :
    /\ HostMethod("setAdVolume")
    /\ attributes_' = setAdVolumeAttributes(attributes_, value)
    /\ last' = Done("setAdVolume",
                    callEvent_(eventsCallbacks_, NoRun, "AdVolumeChange"))
    /\ lastIO' = IO(<<value>>, <<>>,
                    SeenBy(last', View(attributes_', slotChildren, video)))
    /\ UNCHANGED <<variant, eventsCallbacks_, slot_, videoSlot_, startTime_,
                   videos_, parameters_, slotChildren, video, timers, ticks,
                   lastReg, lastSize, startedAt, clicksSinceStart,
                   stopCalls, stoppedEmits>>

\* updateVideoPlayerSize_ (variant 1 only; variant 2 calls it without
\* defining it)
updateVideoPlayerSize_(v, attrs) ==
  [v EXCEPT !.width = <<attrs.width>>, !.height = <<attrs.height>>]

\* resizeAd that puts the unit back into non-linear mode
resizeAdAttributes_resetsLinear(attrs, size) ==
  [attrs EXCEPT !.width = size.width, !.height = size.height,
                !.viewMode = size.viewMode, !.linear = FALSE]

\* resizeAd: the three attribute writes
resizeAdAttributes(attrs, size) ==
  [attrs EXCEPT !.width = size.width, !.height = size.height,
                !.viewMode = size.viewMode]

resizeAd ==
  \E size \in Sizes :
    /\ HostMethod("resizeAd")
    /\ attributes_' = resizeAdAttributes(attributes_, size)
    /\ IF variant = 1 /\ videoSlot_ = "videoSlot"
       THEN /\ video' = updateVideoPlayerSize_(video, attributes_')
            /\ last' = Done("resizeAd",
                            callEvent_(eventsCallbacks_, NoRun,
                                       "AdSizeChange"))
       ELSE /\ UNCHANGED video
            /\ last' = Done("resizeAd", Faulted(NoRun))
    /\ lastSize' = size
    /\ lastIO' = IO(<<>>, <<>>,
                    SeenBy(last', View(attributes_', slotChildren, video')))
    /\ UNCHANGED <<variant, eventsCallbacks_, slot_, videoSlot_, startTime_,
                   videos_, parameters_, slotChildren, timers, ticks,
                   lastReg, startedAt, clicksSinceStart, stopCalls,
                   stoppedEmits>>

pauseAd ==
  /\ HostMethod("pauseAd")
  /\ IF videoSlot_ = "videoSlot"
     THEN /\ video' = pause(video)
          /\ last' = Done("pauseAd",
                          callEvent_(eventsCallbacks_, NoRun, "AdPaused"))
     ELSE /\ UNCHANGED video
          /\ last' = Done("pauseAd", Faulted(NoRun))
  /\ lastIO' = IO(<<>>, <<>>,
                  SeenBy(last', View(attributes_, slotChildren, video')))
  /\ UNCHANGED <<variant, attributes_, eventsCallbacks_, slot_, videoSlot_,
                 startTime_, videos_, parameters_, slotChildren, timers,
                 ticks, lastReg, lastSize, startedAt, clicksSinceStart,
                 stopCalls, stoppedEmits>>

resumeAd ==
  /\ HostMethod("resumeAd")
  /\ IF videoSlot_ = "videoSlot"
     THEN /\ video' = play(video)
          /\ last' = Done("resumeAd",
                          callEvent_(eventsCallbacks_, NoRun,
                                     IF variant = 1 THEN "AdResumed"
                                     ELSE "AdPlaying"))
     ELSE /\ UNCHANGED video
          /\ last' = Done("resumeAd", Faulted(NoRun))
  /\ lastIO' = IO(<<>>, <<>>,
                  SeenBy(last', View(attributes_, slotChildren, video')))
  /\ UNCHANGED <<variant, attributes_, eventsCallbacks_, slot_, videoSlot_,
                 startTime_, videos_, parameters_, slotChildren, timers,
                 ticks, lastReg, lastSize, startedAt, clicksSinceStart,
                 stopCalls, stoppedEmits>>

\* expandAd: variant 1 reads the identifier elem, which the file never
\* declares; it resolves against the globals of the page, and the read
\* throws when the page has no such global
expandAd ==
  \E elemDeclared \in BOOLEAN :
    /\ HostMethod("expandAd")
    /\ attributes_' = [attributes_ EXCEPT !.expanded = TRUE]
    /\ last' = IF variant = 1 /\ ~elemDeclared
               THEN Done("expandAd", Faulted(NoRun))
               ELSE Done("expandAd",
                         callEvent_(eventsCallbacks_, NoRun, "AdExpanded"))
    /\ lastIO' = IO(<<>>, <<>>,
                    SeenBy(last', View(attributes_', slotChildren, video)))
    /\ UNCHANGED <<variant, eventsCallbacks_, slot_, videoSlot_, startTime_,
                   videos_, parameters_, slotChildren, video, timers, ticks,
                   lastReg, lastSize, startedAt, clicksSinceStart,
                   stopCalls, stoppedEmits>>

\* collapseAd that makes the collapsed unit skippable
collapseAd_makesSkippable ==
  /\ HostMethod("collapseAd")
  /\ attributes_' = [attributes_ EXCEPT !.expanded = FALSE,
                                     !.skippableState = TRUE]
  /\ last' = Done("collapseAd", NoRun)
  /\ lastIO' = IO(<<>>, <<>>,
                  SeenBy(last', View(attributes_', slotChildren, video)))
  /\ UNCHANGED <<variant, eventsCallbacks_, slot_, videoSlot_, startTime_,
                 videos_, parameters_, slotChildren, video, timers, ticks,
                 lastReg, lastSize, startedAt, clicksSinceStart, stopCalls,
                 stoppedEmits>>

collapseAd ==
  /\ HostMethod("collapseAd")
  /\ attributes_' = [attributes_ EXCEPT !.expanded = FALSE]
  /\ last' = Done("collapseAd", NoRun)
  /\ lastIO' = IO(<<>>, <<>>,
                  SeenBy(last', View(attributes_', slotChildren, video)))
  /\ UNCHANGED <<variant, eventsCallbacks_, slot_, videoSlot_, startTime_,
                 videos_, parameters_, slotChildren, video, timers, ticks,
                 lastReg, lastSize, startedAt, clicksSinceStart, stopCalls,
                 stoppedEmits>>

\* skipAd that emits without looking at skippableState
skipAdRun_unguarded(cbs, attrs) == callEvent_(cbs, NoRun, "AdSkipped")

\* skipAd: the emission is guarded by the skippableState attribute
skipAdRun(cbs, attrs) ==
  IF attrs.skippableState THEN callEvent_(cbs, NoRun, "AdSkipped")
  ELSE NoRun

skipAd ==
  /\ HostMethod("skipAd")
  /\ last' = Done("skipAd", skipAdRun(eventsCallbacks_, attributes_))
  /\ lastIO' = IO(<<>>, <<>>,
                  SeenBy(last', View(attributes_, slotChildren, video)))
  /\ UNCHANGED <<variant, attributes_, eventsCallbacks_, slot_, videoSlot_,
                 startTime_, videos_, parameters_, slotChildren, video,
                 timers, ticks, lastReg, lastSize, startedAt,
                 clicksSinceStart, stopCalls, stoppedEmits>>

subscribe ==
  \E reg \in Registrations, eventName \in EventNames :
    /\ HostMethod("subscribe")
    /\ SingleName(eventName)
    /\ eventsCallbacks_' =
         subscribeSlot(eventsCallbacks_, reg.aCallback, eventName,
                       reg.aContext)
    /\ lastReg' = [lastReg EXCEPT
                     ![eventName] =
                       BoundFunction(reg.aCallback, reg.aContext)]
    /\ last' = Done("subscribe", NoRun)
    /\ lastIO' = IO(<<>>, <<>>,
                    SeenBy(last', View(attributes_, slotChildren, video)))
    /\ UNCHANGED <<variant, attributes_, slot_, videoSlot_, startTime_,
                   videos_, parameters_, slotChildren, video, timers, ticks,
                   lastSize, startedAt, clicksSinceStart, stopCalls,
                   stoppedEmits>>

unsubscribe ==
  \E eventName \in EventNames :
    /\ HostMethod("unsubscribe")
    /\ SingleName(eventName)
    /\ eventsCallbacks_' = unsubscribeSlot(eventsCallbacks_, eventName)
    /\ lastReg' = [lastReg EXCEPT ![eventName] = Null]
    /\ last' = Done("unsubscribe", NoRun)
    /\ lastIO' = IO(<<>>, <<>>,
                    SeenBy(last', View(attributes_, slotChildren, video)))
    /\ UNCHANGED <<variant, attributes_, slot_, videoSlot_, startTime_,
                   videos_, parameters_, slotChildren, video, timers, ticks,
                   lastSize, startedAt, clicksSinceStart, stopCalls,
                   stoppedEmits>>

\* getAdWidth, getAdHeight
getAdWidth == attributes_.width
getAdHeight == attributes_.height

\* the other getters
getAdExpanded == attributes_.expanded
getAdVolume == attributes_.volume
getAdLinear == attributes_.linear
getAdDuration == attributes_.duration
getAdSkippableState == attributes_.skippableState

\* a remaining time that adds the elapsed time instead of subtracting it
remainingTimeMs_added(duration, currentTime, startTime) ==
  duration * 1000 + (currentTime - startTime)

\* getAdRemainingTime, in milliseconds: the code returns
\* duration - (currentTime - startTime_) / 1000.0 seconds
remainingTimeMs(duration, currentTime, startTime) ==
  duration * 1000 - (currentTime - startTime)

getAdRemainingTime == remainingTimeMs(attributes_.duration, Now, startTime_)

\* ------------------------------------------------------- specifications
Next ==
  \/ handshakeVersion
  \/ initAd
  \/ startAd
  \/ overlayOnClick_
  \/ overlay2OnClick_
  \/ stopAd
  \/ videoEnded
  \/ stopTimerFires
  \/ Tick
  \/ setAdVolume
  \/ resizeAd
  \/ pauseAd
  \/ resumeAd
  \/ expandAd
  \/ collapseAd
  \/ skipAd
  \/ subscribe
  \/ unsubscribe

Spec == Init /\ [][Next]_vars

\* the page's event loop runs a due timer task, and time passes
FairSpec ==
  FairInit /\ [][Next]_vars /\ WF_vars(stopTimerFires) /\ WF_vars(Tick)

TypeOK ==
  /\ variant \in Variants
  /\ opsLeft \in 0..MaxOps
  /\ Cardinality(Keys(eventsCallbacks_)) <= 1

\* ------------------------------------------- reading a handler's record
\* the events only the overlay click handlers emit
ClickEvents ==
  {"AdClickThru", "AdRemainingTimeChange", "AdLinearChange", "AdError"}

InSeq(e, seq) == \E i \in DOMAIN seq : seq[i] = e

\* how often the most recent handler emitted eventName
EmitCount(eventName) ==
  Cardinality({i \in DOMAIN last.emits : last.emits[i] = eventName})

\* the callback invocations the most recent handler made for eventName
CallsFor(eventName) ==
  {i \in DOMAIN last.calls : last.calls[i].event = eventName}

\* the video descriptor list the click handler scans
Videos == IF variant = 1 THEN videos_ ELSE VideosOrEmpty(parameters_)

\* the step is a call of the host player to the named method
HostStep(op) == opsLeft' # opsLeft /\ ticks' = ticks /\ last'.op = op

\* ---------------------------------------------------------------- claims
\* C1: while the most recent subscribe/unsubscribe call for an event name is
\* unsubscribe, no handler invokes a callback for that event name.
C1_UnsubscribedNeverInvoked ==
  \A e \in EventNames : lastReg[e].kind = "null" => CallsFor(e) = {}

\* a handler emitted an event whose name was unsubscribed, and invoked nothing
C1_Witness ==
  \E e \in EventNames :
    /\ lastReg[e].kind = "null"
    /\ EmitCount(e) > 0
    /\ last.calls = <<>>

\* C2: a handler that emits an event whose slot holds no callback (never
\* subscribed, or cleared by unsubscribe) does not fault.
C2_EmitWithoutCallbackIsSilent ==
  \A i \in DOMAIN last.emits :
    eventsCallbacks_[last.emits[i]].kind # "function" => ~last.fault

\* C3: while the most recent subscribe/unsubscribe call for an event name is
\* subscribe(cb, name, ctx), every emission of that name invokes exactly one
\* callback, and it is cb bound to ctx.
C3_LastSubscribeInvokedOnce ==
  \A e \in EventNames :
    lastReg[e].kind = "function" =>
      /\ Cardinality(CallsFor(e)) = EmitCount(e)
      /\ \A i \in CallsFor(e) :
           /\ last.calls[i].fn = lastReg[e].fn
           /\ last.calls[i].this = lastReg[e].this

\* a handler emitted a subscribed event and its callback ran
C3_Witness ==
  \E e \in EventNames :
    /\ lastReg[e].kind = "function"
    /\ EmitCount(e) = 1
    /\ Cardinality(CallsFor(e)) = 1

\* C4: after the second overlay click the source of the video element is
\* the url of the first entry of the list the element can play.
C4_FirstPlayableSelected ==
  last.op = "overlay2Click" =>
    LET i == firstPlayable(Videos, 1)
    IN  i > 0 => video.src = <<Videos[i].url>>

\* C5: the second overlay click emits AdError exactly when no entry of the
\* list is playable, and no other handler emits AdError.
C5_AdErrorIffNoPlayable ==
  /\ last.op = "overlay2Click" =>
       (InSeq("AdError", last.emits) <=> firstPlayable(Videos, 1) = 0)
  /\ InSeq("AdError", last.emits) => last.op = "overlay2Click"

\* C6: skipAd emits AdSkipped exactly when skippableState is true (whatever
\* the value of the attribute, in every state of the dispatcher); a skipAd
\* call made while it is false emits nothing, invokes nothing, does not
\* fault and changes no attribute and no subscription.
C6_SkipAdGuarded ==
  /\ [](\A b \in BOOLEAN :
          InSeq("AdSkipped",
                skipAdRun(eventsCallbacks_,
                          [attributes_ EXCEPT !.skippableState = b]).emits)
          <=> b)
  /\ [][HostStep("skipAd") =>
          /\ InSeq("AdSkipped", last'.emits) <=> attributes_.skippableState
          /\ ~attributes_.skippableState =>
               /\ last'.emits = <<>>
               /\ last'.calls = <<>>
               /\ ~last'.fault
               /\ attributes_' = attributes_
               /\ eventsCallbacks_' = eventsCallbacks_]_vars

\* skipAd ran on a unit that is not skippable and emitted nothing
C6_Witness ==
  /\ last.op = "skipAd"
  /\ ~attributes_.skippableState
  /\ last.emits = <<>>

\* C7: getAdWidth and getAdHeight return the width and height passed to the
\* most recent initAd or resizeAd call, 0 and 0 when there was none.
C7_SizeIsLastPassed ==
  /\ getAdWidth = lastSize.width
  /\ getAdHeight = lastSize.height

\* initAd ran and the getters return what it was passed
C7_Witness ==
  /\ last.op = "initAd"
  /\ getAdWidth = 300
  /\ getAdHeight = 250

\* C8 as stated: once startAd was called, and as long as it is not called
\* again, the remaining time never increases from one state to the next,
\* whatever handler runs in between.
C8_RemainingTimeNeverIncreases ==
  [][(startedAt # <<>> /\ startedAt' = startedAt) =>
       getAdRemainingTime' <= getAdRemainingTime]_vars

\* C8 amended: once startAd was called the remaining time is the current
\* duration less the time since the most recent startAd call, and it does
\* not increase across a step that is neither a startAd call nor a first
\* overlay click of variant 1.
C8_RemainingTimeAmended ==
  /\ [](startedAt # <<>> =>
          getAdRemainingTime =
            attributes_.duration * 1000 - (Now - startedAt[1]))
  /\ [][(/\ startedAt # <<>>
         /\ startedAt' = startedAt
         /\ variant = 2 \/ clicksSinceStart' = clicksSinceStart) =>
          getAdRemainingTime' <= getAdRemainingTime]_vars

\* time has passed since startAd and the remaining time has gone down
C8_Witness ==
  /\ startedAt # <<>>
  /\ Now > startedAt[1]
  /\ getAdRemainingTime < attributes_.duration * 1000

\* C9: stopAd (called by the host or by an 'ended' listener) emits nothing
\* and invokes no callback before it returns, it only queues one timer per
\* call; AdStopped is emitted by the timer task alone, once per timer; no
\* call is lost or served twice, and whenever stopAd calls are outstanding
\* the emissions eventually catch up with the calls.
C9_StopAdIsDeferred ==
  /\ [](stopCalls = stoppedEmits + Len(timers))
  /\ [][/\ stopCalls' # stopCalls =>
             /\ stoppedEmits' = stoppedEmits
             /\ last'.emits = <<>>
             /\ last'.calls = <<>>
             /\ Len(timers') = Len(timers) + (stopCalls' - stopCalls)
        /\ stoppedEmits' # stoppedEmits =>
             /\ last'.op = "stopTimer"
             /\ last'.emits = <<"AdStopped">>
             /\ stoppedEmits' = stoppedEmits + 1
             /\ timers' = Tail(timers)]_vars
  /\ (stopCalls > stoppedEmits) ~> (stoppedEmits = stopCalls)

\* the timer of a stopAd call fired and the subscribed callback ran
C9_Witness ==
  /\ last.op = "stopTimer"
  /\ stoppedEmits = stopCalls
  /\ Cardinality(CallsFor("AdStopped")) = 1

\* C10: a resizeAd call made after initAd stores width, height and view
\* mode, sets the width and height attributes of the video element, and
\* emits AdSizeChange exactly once.
C10_ResizeAdAfterInit ==
  (last.op = "resizeAd" /\ videoSlot_ = "videoSlot") =>
    /\ attributes_.width = lastSize.width
    /\ attributes_.height = lastSize.height
    /\ attributes_.viewMode = lastSize.viewMode
    /\ video.width = <<lastSize.width>>
    /\ video.height = <<lastSize.height>>
    /\ EmitCount("AdSizeChange") = 1

\* C11: every expandAd call leaves the expanded flag true and emits
\* AdExpanded exactly once, every collapseAd call leaves it false and emits
\* nothing, and no other handler changes the flag, so getAdExpanded tells
\* which of the two was called last.
C11_ExpandCollapse ==
  /\ [](last.op = "expandAd" =>
          getAdExpanded /\ EmitCount("AdExpanded") = 1)
  /\ [](last.op = "collapseAd" => ~getAdExpanded /\ last.emits = <<>>)
  /\ [][getAdExpanded' # getAdExpanded =>
          last'.op \in {"expandAd", "collapseAd"}]_vars

\* C12: a setAdVolume(v) call stores v as it is, emits AdVolumeChange
\* exactly once (whatever the volume was before) and changes no other
\* attribute; no other handler changes the volume, so getAdVolume returns
\* the value of the most recent setAdVolume call.
C12_SetAdVolume ==
  /\ [](last.op = "setAdVolume" =>
          /\ lastIO.args = <<getAdVolume>>
          /\ EmitCount("AdVolumeChange") = 1
          /\ last.emits = <<"AdVolumeChange">>)
  /\ [][HostStep("setAdVolume") =>
          attributes_' = [attributes_ EXCEPT !.volume = lastIO'.args[1]]]_vars
  /\ [][getAdVolume' # getAdVolume => HostStep("setAdVolume")]_vars

\* setAdVolume stored a value outside 0..1 and emitted AdVolumeChange, and
\* the subscribed callback ran
C12_Witness ==
  /\ last.op = "setAdVolume"
  /\ getAdVolume = 50
  /\ lastIO.args = <<50>>
  /\ Cardinality(CallsFor("AdVolumeChange")) = 1

\* C13: handshakeVersion returns "2.0" for every version it is given and in
\* every state of the unit; the call emits nothing, does not fault, and
\* changes no attribute and no subscription.
C13_HandshakeVersion ==
  /\ [](\A version \in Versions : handshakeVersionReturn(version) = "2.0")
  /\ [](last.op = "handshakeVersion" =>
          /\ lastIO.ret = <<"2.0">>
          /\ last.emits = <<>>
          /\ last.calls = <<>>
          /\ ~last.fault)
  /\ [][HostStep("handshakeVersion") =>
          /\ attributes_' = attributes_
          /\ eventsCallbacks_' = eventsCallbacks_]_vars

\* handshakeVersion was called with another version after stopAd and
\* returned "2.0"
C13_Witness ==
  /\ last.op = "handshakeVersion"
  /\ hostCalls.stopAd > 0
  /\ lastIO.args = <<"1.0">>
  /\ lastIO.ret = <<"2.0">>

\* C14: in an impression where the host has called initAd once, startAd
\* once and stopAd at most once, AdStopped has been emitted at most once,
\* however the host's stopAd call, the second overlay click and the 'ended'
\* event of the video element interleave.
C14_StoppedAtMostOnce ==
  (hostCalls.initAd = 1 /\ hostCalls.startAd = 1 /\ hostCalls.stopAd <= 1)
    => stoppedEmits <= 1

\* C15: once AdStopped has been emitted, and while the host has called no
\* method after its stopAd call, no handler that runs (an overlay click,
\* the 'ended' event of the video element, a pending stopAd timer) emits
\* any event.
C15_StoppedIsTerminal ==
  [][(/\ stoppedEmits > 0
      /\ hostCalls.stopAd > 0
      /\ ~hostCalls.afterStop
      /\ opsLeft' = opsLeft
      /\ ticks' = ticks) =>
       last'.emits = <<>>]_vars

\* C16: when the second overlay click emits AdLinearChange, the container
\* has already been emptied and the source of the video element is already
\* the one the click selects, and the unit is already linear.
C16_LinearChangeAfterSetup ==
  last.op = "overlay2Click" =>
    \A i \in DOMAIN last.emits :
      last.emits[i] = "AdLinearChange" =>
        /\ lastIO.seen[i].attributes.linear
        /\ lastIO.seen[i].slotChildren = 0
        /\ lastIO.seen[i].src = video.src

\* C17: an unsubscribe call that removes no registered callback (its event
\* name was never subscribed, or was unsubscribed already) leaves the
\* dispatcher as it was: every later emission, of any event, has the same
\* outcome (invocations, fault) as without the call.
C17_UnsubscribeAbsentIsNoOp ==
  [][(/\ HostStep("unsubscribe")
      /\ \A e \in EventNames :
           eventsCallbacks_[e].kind = "function" =>
             eventsCallbacks_'[e] = eventsCallbacks_[e]) =>
       \A e \in EventNames :
         callEvent_(eventsCallbacks_', NoRun, e) =
           callEvent_(eventsCallbacks_, NoRun, e)]_vars

\* C18: AdStarted is emitted only after an initAd call (startAd on a unit
\* without container faults before it emits), and AdClickThru,
\* AdRemainingTimeChange, AdLinearChange and AdError are emitted only after
\* a startAd call, by a handler that finds the overlays startAd rendered.
C18_LifecycleOrder ==
  /\ [](InSeq("AdStarted", last.emits) => hostCalls.initAd > 0)
  /\ [](last.op = "startAd" /\ hostCalls.initAd = 0 =>
          last.fault /\ last.emits = <<>>)
  /\ [](\A e \in ClickEvents :
          InSeq(e, last.emits) =>
            hostCalls.initAd > 0 /\ hostCalls.startAd > 0)
  /\ [][(ticks' = ticks /\ \E e \in ClickEvents : InSeq(e, last'.emits)) =>
          slotChildren > 0]_vars

\* after one initAd and one startAd call a click on the first overlay
\* emitted AdClickThru and AdRemainingTimeChange
C18_Witness ==
  /\ last.op = "overlayClick"
  /\ last.emits = <<"AdClickThru", "AdRemainingTimeChange">>
  /\ hostCalls.initAd = 1
  /\ hostCalls.startAd = 1

\* C19: a callback that reads the getters while its event is being emitted
\* sees the attribute already updated: the new width and height in AdLoaded
\* and AdSizeChange, the new volume in AdVolumeChange, expanded true in
\* AdExpanded, linear true in AdLinearChange, and in AdRemainingTimeChange
\* the duration already increased over what AdClickThru saw.
C19_AttributeBeforeEvent ==
  /\ Len(lastIO.seen) = Len(last.emits)
  /\ \A i \in DOMAIN last.emits :
       LET e == last.emits[i]
           a == lastIO.seen[i].attributes
       IN  /\ e \in {"AdLoaded", "AdSizeChange"} =>
                a.width = lastSize.width /\ a.height = lastSize.height
           /\ e = "AdVolumeChange" => lastIO.args = <<a.volume>>
           /\ e = "AdExpanded" => a.expanded
           /\ e = "AdLinearChange" => a.linear
           /\ e = "AdRemainingTimeChange" =>
                /\ a.duration = getAdDuration
                /\ i > 1
                /\ a.duration =
                     lastIO.seen[i - 1].attributes.duration
                       + ClickExtraSeconds

\* the subscribed AdRemainingTimeChange callback ran and saw the duration
\* increased by the click
C19_Witness ==
  /\ last.op = "overlayClick"
  /\ Cardinality(CallsFor("AdRemainingTimeChange")) = 1
  /\ Len(lastIO.seen) = 2
  /\ lastIO.seen[2].attributes.duration =
       InitialDuration + ClickExtraSeconds

\* C20: getAdLinear is false after construction, becomes true only through
\* the second overlay click, and once true stays true whatever runs later.
C20_LinearMonotone ==
  /\ [](last.op = "construct" => ~getAdLinear)
  /\ [][getAdLinear => getAdLinear']_vars
  /\ [][(~getAdLinear /\ getAdLinear') =>
          (last'.op = "overlay2Click" /\ opsLeft' = opsLeft)]_vars

\* the unit went linear and a later resizeAd call left it linear
C20_Witness ==
  /\ getAdLinear
  /\ last.op = "resizeAd"

\* C21: skippableState is false in every reachable state, so
\* getAdSkippableState always returns false and no handler ever emits
\* AdSkipped, in both variants.
C21_NeverSkippable ==
  /\ ~getAdSkippableState
  /\ ~InSeq("AdSkipped", last.emits)
  /\ \A i \in DOMAIN lastIO.seen :
       ~lastIO.seen[i].attributes.skippableState

\* the host subscribed to AdSkipped and called skipAd, and no callback ran
C21_Witness ==
  /\ last.op = "skipAd"
  /\ lastReg["AdSkipped"].kind = "function"
  /\ last.calls = <<>>
  /\ ~getAdSkippableState
====
